---- MODULE Spec2Model ----
(***************************************************************************)
(* State-machine model of the Empire game server (src/server.js).          *)
(*                                                                         *)
(* The server keeps one process-wide gameState object and serves it over   *)
(* HTTP routes.  Two handlers, /api/set-key and /api/submit, are async:    *)
(* each runs its checks, suspends at an `await` on an external call and    *)
(* writes gameState when it is resumed.  Node runs other handlers while a  *)
(* request is suspended, so each async handler is two actions (the part    *)
(* before the await and the part after it) and the requests suspended in   *)
(* between are kept in `pending`.  The other handlers are synchronous and  *)
(* are one action each.                                                    *)
(*                                                                         *)
(* A JS string is a sequence of one-character strings, so that trim() and  *)
(* toLowerCase() are computed.  `step` holds the response of the handler   *)
(* that ran last, and the reply of the external service it consumed.       *)
(***************************************************************************)
EXTENDS Bags, FiniteSets, Integers, Sequences, TLC

VARIABLES phase, groqApiKey, submissions, shuffledWords, pending, step

gameState == <<phase, groqApiKey, submissions, shuffledWords>>
vars == <<phase, groqApiKey, submissions, shuffledWords, pending, step>>

\* ---- bound of the model -------------------------------------------------
\* A request is taken up to its await only while the stored submissions and
\* the suspended requests together number fewer than MaxLoad.
MaxLoad == 3

\* ---- JS values ----------------------------------------------------------
Null == "null"
Undefined == <<"undefined">>
EmptyString == << >>

Whitespace == {" "}

toLowerCase(s) ==
    [i \in DOMAIN s |-> CASE s[i] = "A" -> "a"
                          [] s[i] = "B" -> "b"
                          [] s[i] = "L" -> "l"
                          [] s[i] = "T" -> "t"
                          [] OTHER -> s[i]]

RECURSIVE trimStart(_)
trimStart(s) ==
    IF s # << >> /\ Head(s) \in Whitespace THEN trimStart(Tail(s)) ELSE s

RECURSIVE trimEnd(_)
trimEnd(s) ==
    IF s # << >> /\ s[Len(s)] \in Whitespace
    THEN trimEnd(SubSeq(s, 1, Len(s) - 1)) ELSE s

trim(s) == trimEnd(trimStart(s))

\* (x || ''): undefined and '' are falsy
OrEmpty(x) == IF x = Undefined \/ x = EmptyString THEN EmptyString ELSE x

cleanWordOf(word) == toLowerCase(trim(OrEmpty(word)))
cleanNameOf(player) == trim(OrEmpty(player))

\* ---- request inputs -----------------------------------------------------
Players == {<<" ">>, <<"A">>, <<"a", " ">>, <<"B">>}
Words == {Undefined, <<"L">>, <<" ", "l">>, <<"T">>}
Keys == {"", "k1"}

\* ---- external collaborators --------------------------------------------
\* what the fetch of /openai/v1/models can do
ValidatorReplies == {"ok", "not_ok", "throws"}

\* variant: a fetch that throws counts as a valid key
validateApiKeyFailOpen(reply) ==
    CASE reply = "ok" -> TRUE
      [] reply = "not_ok" -> FALSE
      [] reply = "throws" -> TRUE

validateApiKey(reply) ==
    CASE reply = "ok" -> TRUE
      [] reply = "not_ok" -> FALSE
      [] reply = "throws" -> FALSE

\* what the fetch of /openai/v1/chat/completions and the decoding of its
\* body can do: fetch rejects; resp.ok is false; resp.json(), the path
\* data.choices[0].message.content or JSON.parse throws; the text holds no
\* {...}; the text parses to an object whose is_similar is true, or is not
OracleReplies ==
    {"fetch_throws", "not_ok", "decode_throws", "no_braces",
     "is_similar_true", "is_similar_false"}

NotConsulted == "not_consulted"

\* the value checkSimilarity resolves to: null, or the object JSON.parse gave
NullSim == [is_null |-> TRUE, is_similar |-> "undefined"]
ParsedSim(v) == [is_null |-> FALSE, is_similar |-> v]

\* variant of line 156: the key is not looked at
consultsOracleWithoutKey(existingWords, apiKey) ==
    ~(Len(existingWords) = 0)

\* line 156, run synchronously when checkSimilarity is called: FALSE is the
\* early `return null`, TRUE goes on to the fetch
consultsOracle(existingWords, apiKey) ==
    ~(Len(existingWords) = 0 \/ apiKey = Null)

\* variant: a fetch that throws or answers with an error status counts as
\* a similar word
checkSimilarityFailClosed(consulted, reply) ==
    IF ~consulted THEN NullSim
    ELSE CASE reply = "fetch_throws" -> ParsedSim("true")
           [] reply = "not_ok" -> ParsedSim("true")
           [] reply = "decode_throws" -> NullSim
           [] reply = "no_braces" -> NullSim
           [] reply = "is_similar_true" -> ParsedSim("true")
           [] reply = "is_similar_false" -> ParsedSim("false")

\* the value the promise of checkSimilarity resolves to
checkSimilarity(consulted, reply) ==
    IF ~consulted THEN NullSim
    ELSE CASE reply = "fetch_throws" -> NullSim
           [] reply = "not_ok" -> NullSim
           [] reply = "decode_throws" -> NullSim
           [] reply = "no_braces" -> NullSim
           [] reply = "is_similar_true" -> ParsedSim("true")
           [] reply = "is_similar_false" -> ParsedSim("false")

\* sim && sim.is_similar
Truthy(sim) == ~sim.is_null /\ sim.is_similar = "true"

\* ---- helpers ------------------------------------------------------------
wordsOf(subs) == [i \in DOMAIN subs |-> subs[i].word]

Perms(n) == {f \in [1..n -> 1..n] : \A i, j \in 1..n : f[i] = f[j] => i = j}

\* the orders [...a].sort(() => Math.random() - 0.5) can produce
Shuffles(a) == {[i \in 1..Len(a) |-> a[f[i]]] : f \in Perms(Len(a))}

createFreshState ==
    [phase |-> "setup", groqApiKey |-> Null,
     submissions |-> << >>, shuffledWords |-> << >>]

PlayerUrl == "playerUrl"

Reply(op, status, error, body, ext) ==
    [op |-> op, status |-> status, error |-> error, body |-> body, ext |-> ext]

NoReply == Reply("listen", 0, "", << >>, "none")

\* a request parked at its await, with the locals it holds
\* (fetching: the external request is in flight)
Suspended(op, cleanName, cleanWord, key, fetching) ==
    [op |-> op, cleanName |-> cleanName, cleanWord |-> cleanWord,
     key |-> key, fetching |-> fetching]

Load == Len(submissions) + BagCardinality(pending)

\* ---- initial state ------------------------------------------------------
Init ==
    /\ phase = createFreshState.phase
    /\ groqApiKey = createFreshState.groqApiKey
    /\ submissions = createFreshState.submissions
    /\ shuffledWords = createFreshState.shuffledWords
    /\ pending = EmptyBag
    /\ step = NoReply

\* ---- GET /api/state -----------------------------------------------------
\* variant of the answer: the key travels in the player URL
stateJsonWithKey(ph, subs, key) ==
    [phase |-> ph, playerCount |-> Len(subs),
     hasApiKey |-> key # Null, playerUrl |-> key]

\* the object handed to res.json, as a function of the session it is read from
stateJson(ph, subs, key) ==
    [phase |-> ph, playerCount |-> Len(subs),
     hasApiKey |-> key # Null, playerUrl |-> PlayerUrl]

\* variant of /api/state: the players are counted in the shuffled list
GetStateCountingShuffled ==
    /\ step' = Reply("state", 200, "",
                     stateJson(phase, shuffledWords, groqApiKey), "none")
    /\ UNCHANGED <<gameState, pending>>

GetState ==
    /\ step' = Reply("state", 200, "",
                     stateJson(phase, submissions, groqApiKey), "none")
    /\ UNCHANGED <<gameState, pending>>

\* ---- POST /api/set-key --------------------------------------------------
\* up to `await validateApiKey(key)`
SetKeyCall(key) ==
    IF key = ""
    THEN /\ step' = Reply("set-key", 400, "Key required", << >>, "none")
         /\ UNCHANGED <<gameState, pending>>
    ELSE /\ Load < MaxLoad
         /\ pending' = pending (+) SetToBag({Suspended("set-key", << >>, << >>, key, TRUE)})
         /\ step' = Reply("set-key.await", 0, "", << >>, "none")
         /\ UNCHANGED gameState

\* variant of the resumed /api/set-key: the phase moves on whatever the
\* validation says
SetKeyResumeOpeningAnyway(r, reply) ==
    /\ r.op = "set-key"
    /\ BagIn(r, pending)
    /\ pending' = pending (-) SetToBag({r})
    /\ phase' = "submission"
    /\ IF validateApiKey(reply)
       THEN /\ groqApiKey' = r.key
            /\ step' = Reply("set-key", 200, "", r.key, reply)
            /\ UNCHANGED <<submissions, shuffledWords>>
       ELSE /\ step' = Reply("set-key", 401, "Invalid API key", r.key, reply)
            /\ UNCHANGED <<groqApiKey, submissions, shuffledWords>>

\* from the await on
SetKeyResume(r, reply) ==
    /\ r.op = "set-key"
    /\ BagIn(r, pending)
    /\ pending' = pending (-) SetToBag({r})
    /\ IF validateApiKey(reply)
       THEN /\ groqApiKey' = r.key
            /\ phase' = "submission"
            /\ step' = Reply("set-key", 200, "", r.key, reply)
            /\ UNCHANGED <<submissions, shuffledWords>>
       ELSE /\ step' = Reply("set-key", 401, "Invalid API key", r.key, reply)
            /\ UNCHANGED gameState

SetKey == \E key \in Keys : SetKeyCall(key)

SetKeyDone ==
    \E r \in BagToSet(pending), reply \in ValidatorReplies : SetKeyResume(r, reply)

\* ---- POST /api/submit ---------------------------------------------------
hasPlayer(subs, cleanName) ==
    \E i \in DOMAIN subs : toLowerCase(subs[i].player) = toLowerCase(cleanName)

hasWord(subs, cleanWord) ==
    \E i \in DOMAIN subs : subs[i].word = cleanWord

\* variant of the checks: the word is looked up before the player
submitErrorWordFirst(subs, player, word) ==
    LET cleanWord == cleanWordOf(word)
        cleanName == cleanNameOf(player)
    IN  IF cleanName = EmptyString \/ cleanWord = EmptyString
        THEN "Name and word are required."
        ELSE IF hasWord(subs, cleanWord)
        THEN "That word has already been submitted. Try another!"
        ELSE IF hasPlayer(subs, cleanName)
        THEN "has already submitted a word."
        ELSE ""

\* the checks made on req.body against the stored submissions, in the order
\* of the code: the error of the first one that fails, "" when all pass
submitError(subs, player, word) ==
    LET cleanWord == cleanWordOf(word)
        cleanName == cleanNameOf(player)
    IN  IF cleanName = EmptyString \/ cleanWord = EmptyString
        THEN "Name and word are required."
        ELSE IF hasPlayer(subs, cleanName)
        THEN "has already submitted a word."
        ELSE IF hasWord(subs, cleanWord)
        THEN "That word has already been submitted. Try another!"
        ELSE ""

\* from the reading of req.body up to `await checkSimilarity(...)`
SubmitCall(player, word) ==
    IF submitError(submissions, player, word) # ""
    THEN /\ step' = Reply("submit", 400, submitError(submissions, player, word),
                          << >>, "none")
         /\ UNCHANGED <<gameState, pending>>
    ELSE /\ Load < MaxLoad
         /\ pending' = pending (+) SetToBag({Suspended(
                "submit", cleanNameOf(player), cleanWordOf(word), "",
                consultsOracle(wordsOf(submissions), groqApiKey))})
         /\ step' = Reply("submit.await", 0, "", << >>, "none")
         /\ UNCHANGED gameState

\* variant of the resumed /api/submit: the entry is put at the front
SubmitResumeUnshifting(r, reply) ==
    /\ r.op = "submit"
    /\ BagIn(r, pending)
    /\ IF r.fetching THEN reply \in OracleReplies ELSE reply = NotConsulted
    /\ pending' = pending (-) SetToBag({r})
    /\ LET sim == checkSimilarity(r.fetching, reply)
       IN  IF Truthy(sim)
           THEN /\ step' = Reply("submit", 400,
                     "Your word is too similar to a previously submitted word. Try another!",
                     << >>, reply)
                /\ UNCHANGED gameState
           ELSE /\ submissions' =
                     <<[player |-> r.cleanName, word |-> r.cleanWord]>> \o submissions
                /\ step' = Reply("submit", 200, "",
                     [playerCount |-> Len(submissions')], reply)
                /\ UNCHANGED <<phase, groqApiKey, shuffledWords>>

\* from the await on
SubmitResume(r, reply) ==
    /\ r.op = "submit"
    /\ BagIn(r, pending)
    /\ IF r.fetching THEN reply \in OracleReplies ELSE reply = NotConsulted
    /\ pending' = pending (-) SetToBag({r})
    /\ LET sim == checkSimilarity(r.fetching, reply)
       IN  IF Truthy(sim)
           THEN /\ step' = Reply("submit", 400,
                     "Your word is too similar to a previously submitted word. Try another!",
                     << >>, reply)
                /\ UNCHANGED gameState
           ELSE /\ submissions' = Append(submissions,
                     [player |-> r.cleanName, word |-> r.cleanWord])
                /\ step' = Reply("submit", 200, "",
                     [playerCount |-> Len(submissions')], reply)
                /\ UNCHANGED <<phase, groqApiKey, shuffledWords>>

\* the phase gate comes first, before the body of the request is read
Submit ==
    IF phase # "submission"
    THEN /\ step' = Reply("submit", 400, "Not accepting submissions right now.",
                          << >>, "none")
         /\ UNCHANGED <<gameState, pending>>
    ELSE \E player \in Players, word \in Words : SubmitCall(player, word)

SubmitDone ==
    \E r \in BagToSet(pending), reply \in OracleReplies \cup {NotConsulted} :
        SubmitResume(r, reply)

\* variant of /api/start: one submission is enough
StartWithOnePlayer ==
    IF Len(submissions) < 1
    THEN /\ step' = Reply("start", 400, "Need at least 2 players.", << >>, "none")
         /\ UNCHANGED <<gameState, pending>>
    ELSE /\ phase' = "playing"
         /\ shuffledWords' \in Shuffles(wordsOf(submissions))
         /\ step' = Reply("start", 200, "", << >>, "none")
         /\ UNCHANGED <<groqApiKey, submissions, pending>>

\* variant of /api/start: the submissions themselves are shuffled, not a copy
StartShufflingInPlace ==
    IF Len(submissions) < 2
    THEN /\ step' = Reply("start", 400, "Need at least 2 players.", << >>, "none")
         /\ UNCHANGED <<gameState, pending>>
    ELSE /\ phase' = "playing"
         /\ \E f \in Perms(Len(submissions)) :
                submissions' = [i \in DOMAIN submissions |-> submissions[f[i]]]
         /\ shuffledWords' = wordsOf(submissions')
         /\ step' = Reply("start", 200, "", << >>, "none")
         /\ UNCHANGED <<groqApiKey, pending>>

\* ---- POST /api/start ----------------------------------------------------
Start ==
    IF Len(submissions) < 2
    THEN /\ step' = Reply("start", 400, "Need at least 2 players.", << >>, "none")
         /\ UNCHANGED <<gameState, pending>>
    ELSE /\ phase' = "playing"
         /\ shuffledWords' \in Shuffles(wordsOf(submissions))
         /\ step' = Reply("start", 200, "", << >>, "none")
         /\ UNCHANGED <<groqApiKey, submissions, pending>>

\* variant of /api/words: no phase gate
GetWordsUngated ==
    /\ step' = Reply("words", 200, "", shuffledWords, "none")
    /\ UNCHANGED <<gameState, pending>>

\* ---- GET /api/words -----------------------------------------------------
GetWords ==
    /\ IF phase # "playing"
       THEN step' = Reply("words", 400, "Game not started yet.", << >>, "none")
       ELSE step' = Reply("words", 200, "", shuffledWords, "none")
    /\ UNCHANGED <<gameState, pending>>

\* ---- GET /api/attribution -----------------------------------------------
GetAttribution ==
    /\ IF phase # "playing"
       THEN step' = Reply("attribution", 400, "Game not started yet.", << >>, "none")
       ELSE step' = Reply("attribution", 200, "", submissions, "none")
    /\ UNCHANGED <<gameState, pending>>

\* variant of /api/reset: the phase is left as it is
ResetKeepingPhase ==
    LET key == groqApiKey
    IN  /\ groqApiKey' = key
        /\ submissions' = createFreshState.submissions
        /\ shuffledWords' = createFreshState.shuffledWords
        /\ step' = Reply("reset", 200, "", << >>, "none")
        /\ UNCHANGED <<phase, pending>>

\* variant of /api/reset: the key is not carried over
ResetForgettingKey ==
    /\ phase' = "submission"
    /\ groqApiKey' = createFreshState.groqApiKey
    /\ submissions' = createFreshState.submissions
    /\ shuffledWords' = createFreshState.shuffledWords
    /\ step' = Reply("reset", 200, "", << >>, "none")
    /\ UNCHANGED pending

\* ---- POST /api/reset ----------------------------------------------------
Reset ==
    LET key == groqApiKey
    IN  /\ phase' = "submission"
        /\ groqApiKey' = key
        /\ submissions' = createFreshState.submissions
        /\ shuffledWords' = createFreshState.shuffledWords
        /\ step' = Reply("reset", 200, "", << >>, "none")
        /\ UNCHANGED pending

\* ---- POST /api/full-reset -----------------------------------------------
FullReset ==
    /\ phase' = createFreshState.phase
    /\ groqApiKey' = createFreshState.groqApiKey
    /\ submissions' = createFreshState.submissions
    /\ shuffledWords' = createFreshState.shuffledWords
    /\ step' = Reply("full-reset", 200, "", << >>, "none")
    /\ UNCHANGED pending

Next ==
    \/ GetState
    \/ SetKey
    \/ SetKeyDone
    \/ Submit
    \/ SubmitDone
    \/ Start
    \/ GetWords
    \/ GetAttribution
    \/ Reset
    \/ FullReset

Spec == Init /\ [][Next]_vars

\* ---- vocabulary of the properties ---------------------------------------
Count(seq, x) == Cardinality({i \in DOMAIN seq : seq[i] = x})

SameMultiset(a, b) ==
    /\ Len(a) = Len(b)
    /\ \A i \in DOMAIN a : Count(a, a[i]) = Count(b, a[i])

OracleUnavailable == {"fetch_throws", "not_ok", "decode_throws", "no_braces"}

\* the step was the part of /api/submit before its await, and it answered
SubmitAnsweredAtCall == step'.op = "submit" /\ step'.ext = "none"

\* the suspended /api/submit request that this step resumed
ResumedSubmit(r) ==
    /\ r.op = "submit"
    /\ BagIn(r, pending)
    /\ pending' = pending (-) SetToBag({r})

\* the suspended /api/set-key request that this step resumed
ResumedSetKey(r) ==
    /\ r.op = "set-key"
    /\ BagIn(r, pending)
    /\ pending' = pending (-) SetToBag({r})

\* ---- C1 -----------------------------------------------------------------
\* C1: in every reachable state no two entries of submissions have player
\* names that are equal after case-folding, and no two have normalized
\* (trimmed, lower-cased) words that are equal.
C1_NoDuplicateSubmissions ==
    \A i, j \in DOMAIN submissions :
        i # j =>
            /\ toLowerCase(submissions[i].player) # toLowerCase(submissions[j].player)
            /\ toLowerCase(trim(submissions[i].word)) # toLowerCase(trim(submissions[j].word))

\* ---- C2 -----------------------------------------------------------------
\* C2: /api/start succeeds exactly when submissions holds at least 2 entries
\* at the call; on success phase becomes playing and shuffledWords holds the
\* same multiset of words as submissions; on failure (400, "Need at least 2
\* players.") phase, groqApiKey, submissions and shuffledWords are unchanged.
C2_StartRound ==
    [][step'.op = "start" =>
        /\ (step'.status = 200) <=> (Len(submissions) >= 2)
        /\ step'.status = 200 =>
            /\ phase' = "playing"
            /\ SameMultiset(shuffledWords', wordsOf(submissions))
            /\ submissions' = submissions
        /\ step'.status # 200 =>
            /\ step'.status = 400
            /\ step'.error = "Need at least 2 players."
            /\ UNCHANGED gameState]_vars

\* a round was started and the shuffle changed the order of the words
C2_Witness ==
    /\ step.op = "start"
    /\ step.status = 200
    /\ phase = "playing"
    /\ shuffledWords # wordsOf(submissions)
    /\ SameMultiset(shuffledWords, wordsOf(submissions))

\* ---- C3 -----------------------------------------------------------------
\* C3: once /api/start has succeeded (shuffledWords is filled), a further
\* /api/start before /api/reset or /api/full-reset is rejected and leaves
\* shuffledWords as it was.
C3_ShuffleOncePerRound ==
    [][(shuffledWords # << >> /\ step'.op = "start") =>
        /\ step'.status = 400
        /\ shuffledWords' = shuffledWords]_vars

\* ---- C4 -----------------------------------------------------------------
\* C4: in every reachable state shuffledWords is non-empty only when phase
\* is playing.
C4_ShuffledOnlyWhenPlaying ==
    shuffledWords # << >> => phase = "playing"

\* ---- C5 -----------------------------------------------------------------
\* C5: /api/reset, from any state, answers 200 and yields phase submission,
\* empty submissions, empty shuffledWords and groqApiKey as it was;
\* /api/full-reset, from any state, answers 200 and yields the initial
\* state: phase setup, empty submissions, empty shuffledWords, no key.
C5_Resets ==
    [][/\ step'.op = "reset" =>
            /\ step'.status = 200
            /\ phase' = "submission"
            /\ submissions' = << >>
            /\ shuffledWords' = << >>
            /\ groqApiKey' = groqApiKey
       /\ step'.op = "full-reset" =>
            /\ step'.status = 200
            /\ phase' = "setup"
            /\ submissions' = << >>
            /\ shuffledWords' = << >>
            /\ groqApiKey' = Null]_vars

\* a new round was begun and the key is still stored
C5_Witness ==
    /\ step.op = "reset"
    /\ groqApiKey = "k1"
    /\ phase = "submission"
    /\ submissions = << >>
    /\ shuffledWords = << >>

\* ---- C6 -----------------------------------------------------------------
\* C6: /api/set-key changes the session exactly when the validator answers
\* ok: then groqApiKey is the candidate and phase is submission, whatever the
\* phase was, and submissions and shuffledWords are untouched.  When the
\* validator answers not ok or cannot be reached the call answers 401
\* "Invalid API key" and phase, groqApiKey, submissions and shuffledWords
\* are unchanged.
C6_SetKey ==
    [][(step'.op = "set-key" /\ step'.ext # "none") =>
        \E r \in BagToSet(pending) :
            /\ ResumedSetKey(r)
            /\ step'.ext \in ValidatorReplies
            /\ IF step'.ext = "ok"
               THEN /\ step'.status = 200
                    /\ groqApiKey' = r.key
                    /\ phase' = "submission"
                    /\ UNCHANGED <<submissions, shuffledWords>>
               ELSE /\ step'.status = 401
                    /\ step'.error = "Invalid API key"
                    /\ UNCHANGED gameState]_vars

\* the validator could not be reached during setup: rejected, still setup
C6_Witness ==
    /\ step.op = "set-key"
    /\ step.ext = "throws"
    /\ step.status = 401
    /\ phase = "setup"
    /\ groqApiKey = Null

\* ---- C7 -----------------------------------------------------------------
\* C7: when the oracle was consulted for a submission and cannot be reached,
\* answers with an error status or answers with text that cannot be parsed,
\* the request answers 200 and its entry is appended to submissions, as when
\* the oracle says not similar; nothing else of the session changes.
C7_OracleFailsOpen ==
    [][(step'.op = "submit" /\ step'.ext \in OracleUnavailable) =>
        \E r \in BagToSet(pending) :
            /\ ResumedSubmit(r)
            /\ r.fetching
            /\ step'.status = 200
            /\ step'.error = ""
            /\ submissions' = Append(submissions,
                                     [player |-> r.cleanName, word |-> r.cleanWord])
            /\ UNCHANGED <<phase, groqApiKey, shuffledWords>>]_vars

\* a second word was accepted although the oracle could not be reached
C7_Witness ==
    /\ step.op = "submit"
    /\ step.ext = "fetch_throws"
    /\ step.status = 200
    /\ Len(submissions) = 2
    /\ step.body.playerCount = 2

\* ---- C8 -----------------------------------------------------------------
\* C8: /api/words and /api/attribution answer 400 "Game not started yet."
\* whenever phase is not playing and 200 whenever it is; on success
\* /api/words returns shuffledWords and /api/attribution returns
\* submissions; neither changes the session or the suspended requests.
C8_Reads ==
    [][/\ step'.op = "words" =>
            /\ IF phase = "playing"
               THEN step'.status = 200 /\ step'.body = shuffledWords
               ELSE step'.status = 400 /\ step'.error = "Game not started yet."
            /\ UNCHANGED <<gameState, pending>>
       /\ step'.op = "attribution" =>
            /\ IF phase = "playing"
               THEN step'.status = 200 /\ step'.body = submissions
               ELSE step'.status = 400 /\ step'.error = "Game not started yet."
            /\ UNCHANGED <<gameState, pending>>]_vars

\* the attribution of a started round was read
C8_Witness ==
    /\ step.op = "attribution"
    /\ step.status = 200
    /\ phase = "playing"
    /\ step.body = submissions
    /\ Len(submissions) >= 2

\* ---- C9 -----------------------------------------------------------------
\* C9: a /api/submit made while phase is not submission answers 400 "Not
\* accepting submissions right now.", and an entry is appended to
\* submissions only at a moment when phase is submission.
C9_SubmitOnlyInSubmission ==
    [][/\ (SubmitAnsweredAtCall /\ phase # "submission") =>
            /\ step'.status = 400
            /\ step'.error = "Not accepting submissions right now."
       /\ Len(submissions') > Len(submissions) => phase = "submission"]_vars

\* ---- C10 ----------------------------------------------------------------
\* C10: each operation runs to completion before the next begins: while a
\* request is suspended at its await, the only step taken is a resumption of
\* a suspended request, so no other handler reads or writes the session in
\* between.
C10_RunToCompletion ==
    [][pending # EmptyBag =>
        BagCardinality(pending') < BagCardinality(pending)]_vars

\* ---- C11 ----------------------------------------------------------------
\* C11: /api/state never changes the session: every /api/state step leaves
\* phase, groqApiKey, submissions and shuffledWords (and the suspended
\* requests) as they were, and it answers 200 with the current phase, the
\* current number of submissions and whether a key is stored.
C11_GetStateReadOnly ==
    [][step'.op = "state" =>
        /\ step'.status = 200
        /\ step'.body.phase = phase
        /\ step'.body.playerCount = Len(submissions)
        /\ step'.body.hasApiKey = (groqApiKey # Null)
        /\ UNCHANGED <<gameState, pending>>]_vars

\* the state of a started round was read, while a request was suspended
C11_Witness ==
    /\ step.op = "state"
    /\ step.body.phase = "playing"
    /\ step.body.playerCount = 2
    /\ step.body.hasApiKey
    /\ shuffledWords # << >>
    /\ pending # EmptyBag

\* ---- C12 ----------------------------------------------------------------
\* C12: /api/state does not expose the key: when a key is stored, the answer
\* just given is the answer the same session would give with any other key
\* stored, so the answer depends on the key only through hasApiKey.
SecretValues == {"k1", "k2"}

C12_StateHidesKey ==
    (step.op = "state" /\ groqApiKey # Null) =>
        \A key \in SecretValues :
            step.body = stateJson(phase, submissions, key)

\* the state was read while a key was stored
C12_Witness ==
    /\ step.op = "state"
    /\ groqApiKey \in SecretValues
    /\ step.body.hasApiKey
    /\ Len(submissions) >= 1

\* ---- C13 ----------------------------------------------------------------
\* C13: submissions only grows at its end, except that /api/reset and
\* /api/full-reset empty it: every step of any other operation (submit,
\* start, set-key, words, attribution, state) leaves the entries already
\* stored in place and in order, and a reset step leaves the list empty.
IsPrefix(a, b) == Len(a) <= Len(b) /\ SubSeq(b, 1, Len(a)) = a

C13_SubmissionsOnlyGrow ==
    [][/\ step'.op \notin {"reset", "full-reset"} =>
            IsPrefix(submissions, submissions')
       /\ step'.op \in {"reset", "full-reset"} => submissions' = << >>]_vars

\* a round was started and both stored entries are still there
C13_Witness ==
    /\ step.op = "start"
    /\ step.status = 200
    /\ Len(submissions) = 2
    /\ submissions[1].word # submissions[2].word

\* ---- C14 ----------------------------------------------------------------
\* C14: an accepted /api/submit appends the {player, word} of its request at
\* the end of submissions and answers with the new length, the previous
\* length plus one; and /api/attribution of a started round answers with
\* submissions as stored, that is in the order of acceptance, whatever the
\* order of shuffledWords.
C14_AcceptedSubmitAppends ==
    [][/\ (step'.op = "submit" /\ step'.status = 200) =>
            \E r \in BagToSet(pending) :
                /\ ResumedSubmit(r)
                /\ submissions' = Append(submissions,
                        [player |-> r.cleanName, word |-> r.cleanWord])
                /\ step'.body.playerCount = Len(submissions) + 1
       /\ (step'.op = "attribution" /\ step'.status = 200) =>
            /\ step'.body = submissions
            /\ \A i \in DOMAIN shuffledWords : \E j \in DOMAIN step'.body :
                    step'.body[j].word = shuffledWords[i]]_vars

\* the attribution was read in the order of acceptance while the words had
\* been shuffled into another order
C14_Witness ==
    /\ step.op = "attribution"
    /\ step.status = 200
    /\ Len(step.body) = 2
    /\ step.body = submissions
    /\ shuffledWords = <<submissions[2].word, submissions[1].word>>
    /\ submissions[1].word # submissions[2].word

\* ---- C15 ----------------------------------------------------------------
\* C15: /api/submit reports the first check that fails, in the order: phase,
\* missing name or word, duplicate player, duplicate word, similar word.  A
\* request whose player and word both repeat stored ones is told the player
\* has already submitted; a request is suspended for the similarity check
\* only when the four earlier checks pass; and every /api/submit answered
\* 400 leaves phase, groqApiKey, submissions and shuffledWords unchanged.
PhaseMismatch == "Not accepting submissions right now."
MissingField == "Name and word are required."
DuplicatePlayer == "has already submitted a word."
DuplicateWord == "That word has already been submitted. Try another!"
SimilarWord == "Your word is too similar to a previously submitted word. Try another!"

CheckOrder == <<PhaseMismatch, MissingField, DuplicatePlayer, DuplicateWord>>

\* a request with these cleaned fields fails the named check in this state
Fails(check, cleanName, cleanWord) ==
    CASE check = PhaseMismatch -> phase # "submission"
      [] check = MissingField -> cleanName = EmptyString \/ cleanWord = EmptyString
      [] check = DuplicatePlayer -> hasPlayer(submissions, cleanName)
      [] check = DuplicateWord -> hasWord(submissions, cleanWord)

\* the first check in CheckOrder the request fails, "" when it fails none
FirstFailingCheck(player, word) ==
    LET cleanName == cleanNameOf(player)
        cleanWord == cleanWordOf(word)
        failing == {i \in DOMAIN CheckOrder : Fails(CheckOrder[i], cleanName, cleanWord)}
    IN  IF failing = {} THEN ""
        ELSE CheckOrder[CHOOSE i \in failing : \A j \in failing : i <= j]

\* in a state where /api/submit has just refused a request on its body (the
\* session is then as the handler found it), the handler's verdict on every
\* request is the first failing check of the order
C15_SubmitCheckOrder ==
    /\ []((step.op = "submit" /\ step.ext = "none" /\ phase = "submission") =>
            \A player \in Players, word \in Words :
                submitError(submissions, player, word) = FirstFailingCheck(player, word))
    /\ [][/\ (step'.op = "submit" /\ step'.ext = "none") =>
                IF phase # "submission"
                THEN step'.error = PhaseMismatch
                ELSE step'.error \in {MissingField, DuplicatePlayer, DuplicateWord}
          /\ step'.op = "submit.await" =>
                \E r \in BagToSet(pending') :
                    /\ pending' = pending (+) SetToBag({r})
                    /\ r.op = "submit"
                    /\ phase = "submission"
                    /\ r.cleanName # EmptyString /\ r.cleanWord # EmptyString
                    /\ ~hasPlayer(submissions, r.cleanName)
                    /\ ~hasWord(submissions, r.cleanWord)
          /\ (step'.op = "submit" /\ step'.error = SimilarWord) =>
                \E r \in BagToSet(pending) :
                    ResumedSubmit(r) /\ r.fetching /\ step'.ext = "is_similar_true"
          /\ (step'.op = "submit" /\ step'.status = 400) =>
                UNCHANGED gameState]_vars

\* with the entry A / l stored, a request was refused for its player, and
\* the request <<"a", " ">> with <<"L">>, which repeats both the player and
\* the word, is one that is refused so
C15_Witness ==
    /\ step.op = "submit"
    /\ step.status = 400
    /\ step.error = DuplicatePlayer
    /\ phase = "submission"
    /\ submissions = <<[player |-> <<"A">>, word |-> <<"l">>]>>
    /\ Fails(DuplicatePlayer, cleanNameOf(<<"a", " ">>), cleanWordOf(<<"L">>))
    /\ Fails(DuplicateWord, cleanNameOf(<<"a", " ">>), cleanWordOf(<<"L">>))
    /\ submitError(submissions, <<"a", " ">>, <<"L">>) = DuplicatePlayer

\* ---- C16 ----------------------------------------------------------------
\* C16: throughout phase playing, shuffledWords is a permutation of the
\* words of submissions: the two hold the same words the same number of
\* times.
C16_ShuffledIsPermutation ==
    phase = "playing" => SameMultiset(shuffledWords, wordsOf(submissions))

\* ---- C17 ----------------------------------------------------------------
\* C17: whenever phase is submission or playing, a key is stored.
C17_KeyStoredOutsideSetup ==
    phase \in {"submission", "playing"} => groqApiKey # Null

\* the session is out of setup with no key stored
Keyless == phase # "setup" /\ groqApiKey = Null

\* C17, amended: whenever phase is submission or playing a key is stored,
\* except after a /api/reset or a /api/start made in phase setup: a step
\* takes the session out of setup without a key only if it is one of these
\* two, and a successful /api/set-key always leaves its key stored and
\* phase submission.
C17_KeylessOnlyByResetOrStart ==
    [][/\ (~Keyless /\ Keyless') =>
            phase = "setup" /\ step'.op \in {"reset", "start"}
       /\ (step'.op = "set-key" /\ step'.status = 200) =>
            groqApiKey' # Null /\ phase' = "submission"]_vars

\* /api/reset has taken the session to phase submission with no key stored
C17_Witness ==
    /\ step.op = "reset"
    /\ phase = "submission"
    /\ groqApiKey = Null

\* ---- C18 ----------------------------------------------------------------
\* C18: whenever phase is setup the session is entirely empty: no key is
\* stored, submissions is empty and shuffledWords is empty, also when a
\* /api/full-reset ran while a /api/submit or /api/set-key was suspended.
C18_SetupIsEmpty ==
    phase = "setup" =>
        /\ groqApiKey = Null
        /\ submissions = << >>
        /\ shuffledWords = << >>

\* ---- C19 ----------------------------------------------------------------
\* C19: whenever phase is playing, submissions has at least 2 entries and
\* so has shuffledWords, so that /api/words and /api/attribution never
\* answer 200 with fewer than 2 items.
C19_PlayingHasTwo ==
    phase = "playing" =>
        /\ Len(submissions) >= 2
        /\ Len(shuffledWords) >= 2
        /\ (step.op \in {"words", "attribution"} /\ step.status = 200) =>
                Len(step.body) >= 2

\* the words of a started round of exactly two players were read
C19_Witness ==
    /\ phase = "playing"
    /\ step.op = "words"
    /\ step.status = 200
    /\ Len(step.body) = 2
    /\ Len(submissions) = 2

\* ---- C20 ----------------------------------------------------------------
\* C20: the similarity service is consulted only for a /api/submit made
\* while at least one entry is stored and a key is stored.  A request made
\* while submissions is empty or no key is stored, once past the phase,
\* missing-field and duplicate checks, is resumed without any reply of the
\* service, never answers with the similar-word error and is accepted.
C20_OracleOnlyWithWordsAndKey ==
    [][/\ step'.op = "submit.await" =>
            \E r \in BagToSet(pending') :
                /\ pending' = pending (+) SetToBag({r})
                /\ r.fetching = (Len(submissions) >= 1 /\ groqApiKey # Null)
       /\ (step'.op = "submit" /\ step'.ext # "none") =>
            \E r \in BagToSet(pending) :
                /\ ResumedSubmit(r)
                /\ r.fetching = (step'.ext \in OracleReplies)
                /\ ~r.fetching =>
                        /\ step'.ext = NotConsulted
                        /\ step'.status = 200
                        /\ submissions' = Append(submissions,
                                [player |-> r.cleanName, word |-> r.cleanWord])
       /\ (step'.op = "submit" /\ step'.status = 400 /\ step'.ext # "none") =>
            step'.ext = "is_similar_true"]_vars

\* with no key stored, a second word was accepted without the service
\* having been consulted
C20_Witness ==
    /\ step.op = "submit"
    /\ step.status = 200
    /\ step.ext = NotConsulted
    /\ groqApiKey = Null
    /\ phase = "submission"
    /\ Len(submissions) = 2
    /\ pending = EmptyBag

====
